---- MODULE Spec2Model ----
(***************************************************************************)
(* The client of the data-analysis dashboard: the App controller           *)
(* (sessionId, dataInfo, currentAnalysis), the DataUpload view, the mount  *)
(* of the seven analysis views and the requests they have in flight.       *)
(*                                                                         *)
(* Conventions.  A JavaScript null/undefined scalar is the string null; a  *)
(* nullable object is None (<<>>) or Some(x) (<<x>>); a text (an error     *)
(* message) is the sequence of the pieces it was concatenated from, and    *)
(* the null text is <<>>.  One action is one event-loop task: a click      *)
(* handler up to its first await together with the effects of the render   *)
(* that follows it, or the continuation of a handler after its await.      *)
(***************************************************************************)
EXTENDS Integers, Sequences, FiniteSets, TLC

VARIABLES
    sessionId,        \* App: useState(null)
    dataInfo,         \* App: useState(null)
    currentAnalysis,  \* App: useState(null)
    upload,           \* the state of the mounted DataUpload component
    view,             \* the state of the mounted analysis component
    net,              \* the requests in flight, in the order they were issued
    crashed,          \* a render threw: React unmounted the whole tree
    last              \* history: the last task run and the controller state before it

vars == <<sessionId, dataInfo, currentAnalysis, upload, view, net, crashed, last>>

-----------------------------------------------------------------------------
(* Bounds of the model *)

\* the requests that may be in flight together
MaxOutstanding == 2
\* the messages the chat history may hold
MaxMessages == 2

-----------------------------------------------------------------------------
(* Values *)

null == "null"
undefined == "undefined"
None == <<>>
Some(x) == <<x>>
NoText == <<>>

\* the identifiers the backend hands out
SessionIds == {"s1", "s2"}
\* the column taxonomies of the datasets the backend describes
NumericChoices == {<<>>, <<"a", "b">>}
DatetimeChoices == {<<>>, <<"t", "u">>}
\* the files the user can pick
Files == {"f1"}
\* the error strings of the backend, and the messages of a rejected request
BackendErrors == {"bad file"}
TransportMessages == {"Network Error"}

\* what a request can resolve to: a success payload, a body with an error
\* field, or a rejection (network failure or the client's timeout)
Outcomes == {"ok", "error", "fail"}

\* the values of the Handling Method menu
Methods == {"drop", "interpolate", "forward_fill", "backward_fill"}
\* what the user can have typed in the chat input, as sequences of characters
Inputs == {<<>>, <<" ">>, <<" ", "h", " ">>}

\* String.prototype.trim on a sequence of characters
RECURSIVE TrimLeft(_)
TrimLeft(t) == IF t # <<>> /\ Head(t) = " " THEN TrimLeft(Tail(t)) ELSE t

RECURSIVE TrimRight(_)
TrimRight(t) ==
    IF t # <<>> /\ t[Len(t)] = " " THEN TrimRight(SubSeq(t, 1, Len(t) - 1)) ELSE t

Trim(t) == TrimRight(TrimLeft(t))

\* what the user can type in the Rows to Skip and Header Row fields
OptionTexts == {<<>>, <<"x">>, <<"-", "3">>, <<"2">>, <<"2", ".", "7">>}

DigitChars == <<"0", "1", "2", "3", "4", "5", "6", "7", "8", "9">>
IsDigit(c) == \E d \in 1..10 : DigitChars[d] = c
DigitOf(c) == (CHOOSE d \in 1..10 : DigitChars[d] = c) - 1

\* the longest prefix of t made of digits
RECURSIVE DigitRun(_)
DigitRun(t) == IF t # <<>> /\ IsDigit(Head(t)) THEN <<Head(t)>> \o DigitRun(Tail(t)) ELSE <<>>

\* the number a sequence of digits writes
RECURSIVE Decimal(_)
Decimal(ds) ==
    IF ds = <<>> THEN 0 ELSE 10 * Decimal(SubSeq(ds, 1, Len(ds) - 1)) + DigitOf(ds[Len(ds)])

\* parseInt(text): leading white space, a sign, then the digits up to the first
\* character that is none; None is NaN
parseInt(text) ==
    LET t    == TrimLeft(text)
        neg  == t # <<>> /\ Head(t) = "-"
        body == IF t # <<>> /\ Head(t) \in {"-", "+"} THEN Tail(t) ELSE t
        ds   == DigitRun(body)
    IN IF ds = <<>> THEN None ELSE Some(IF neg THEN 0 - Decimal(ds) ELSE Decimal(ds))

\* x || 0 for the result of parseInt: NaN and 0 are falsy
OrZero(x) == IF x = None THEN 0 ELSE IF x[1] = 0 THEN 0 ELSE x[1]

\* Math.max
Max(a, b) == IF a >= b THEN a ELSE b

optionValue_noClamp(text) == OrZero(parseInt(text))

\* Math.max(0, parseInt(e.target.value) || 0)
optionValue(text) == Max(0, OrZero(parseInt(text)))

\* JavaScript truthiness of a scalar
Truthy(x) == x \notin {null, undefined, ""}

-----------------------------------------------------------------------------
(* Bodies of the backend's responses *)

\* a session descriptor: {session_id, numeric_columns, datetime_columns, ...}
\* (shape, columns and preview are only displayed)
SessionDescriptors ==
    { [error |-> null, session_id |-> s, numeric_columns |-> n, datetime_columns |-> d] :
        s \in SessionIds, n \in NumericChoices, d \in DatetimeChoices }

\* {error: e} answered in place of a session descriptor
SessionError(e) ==
    [error |-> e, session_id |-> undefined, numeric_columns |-> <<>>, datetime_columns |-> <<>>]

\* the body of upload/preview: {columns, preview_data, total_rows}
PreviewBody == [error |-> null, columns |-> Some(<<"a", "b", "t">>)]
\* {error: e} answered in place of it: columns is undefined
PreviewError(e) == [error |-> e, columns |-> None]

-----------------------------------------------------------------------------
(* The controller: App *)

\* the three pieces of state of App as one value
Ctrl == [sessionId |-> sessionId, dataInfo |-> dataInfo, currentAnalysis |-> currentAnalysis]

CtrlInit == [sessionId |-> null, dataInfo |-> None, currentAnalysis |-> null]

handleDataLoaded_opens(c, sessionData) ==
    [sessionId |-> sessionData.session_id,
     dataInfo |-> Some(sessionData),
     currentAnalysis |-> "basic_stats"]

handleDataLoaded_noSession(c, sessionData) ==
    [sessionId |-> c.sessionId, dataInfo |-> Some(sessionData), currentAnalysis |-> null]

handleDataLoaded(c, sessionData) ==
    [sessionId |-> sessionData.session_id,
     dataInfo |-> Some(sessionData),
     currentAnalysis |-> null]

handleAnalysisSelect_dropsInfo(c, analysisType) ==
    [c EXCEPT !.currentAnalysis = analysisType, !.dataInfo = None]

handleAnalysisSelect_first(c, analysisType) ==
    [c EXCEPT !.currentAnalysis = "basic_stats"]

handleAnalysisSelect(c, analysisType) ==
    [c EXCEPT !.currentAnalysis = analysisType]

handleBackToMenu_session(c) ==
    [c EXCEPT !.sessionId = null]

handleBackToMenu_info(c) ==
    [c EXCEPT !.currentAnalysis = null, !.dataInfo = None]

handleBackToMenu_toggle(c) ==
    [c EXCEPT !.currentAnalysis = IF c.currentAnalysis = null THEN "basic_stats" ELSE null]

handleBackToMenu(c) ==
    [c EXCEPT !.currentAnalysis = null]

onDataReload_keepsSession(c) ==
    [sessionId |-> c.sessionId, dataInfo |-> None, currentAnalysis |-> null]

onDataReload_keepsInfo(c) ==
    [sessionId |-> null, dataInfo |-> c.dataInfo, currentAnalysis |-> null]

onDataReload(c) ==
    [sessionId |-> null, dataInfo |-> None, currentAnalysis |-> null]

\* the ids of analysisOptions, in the order of the menu
analysisOptions ==
    <<"basic_stats", "distribution", "missing_values", "time_series",
      "correlation", "full_report", "chatbot">>

AnalysisTags == { analysisOptions[i] : i \in 1..Len(analysisOptions) }

renderAnalysisComponent_swapped(sid, info, analysis) ==
    IF ~Truthy(sid) \/ info = None THEN "nothing"
    ELSE CASE analysis = "basic_stats"    -> "BasicStats"
           [] analysis = "distribution"   -> "DistributionAnalysis"
           [] analysis = "missing_values" -> "MissingValuesAnalysis"
           [] analysis = "time_series"    -> "CorrelationAnalysis"
           [] analysis = "correlation"    -> "TimeSeriesAnalysis"
           [] analysis = "full_report"    -> "FullReport"
           [] analysis = "chatbot"        -> "ChatBot"
           [] OTHER                       -> "nothing"

\* the component renderAnalysisComponent returns ("nothing" for null)
renderAnalysisComponent(sid, info, analysis) ==
    IF ~Truthy(sid) \/ info = None THEN "nothing"
    ELSE CASE analysis = "basic_stats"    -> "BasicStats"
           [] analysis = "distribution"   -> "DistributionAnalysis"
           [] analysis = "missing_values" -> "MissingValuesAnalysis"
           [] analysis = "time_series"    -> "TimeSeriesAnalysis"
           [] analysis = "correlation"    -> "CorrelationAnalysis"
           [] analysis = "full_report"    -> "FullReport"
           [] analysis = "chatbot"        -> "ChatBot"
           [] OTHER                       -> "nothing"

AppRender_inverted(sid, info, analysis) ==
    IF Truthy(sid) THEN "DataUpload"
    ELSE IF Truthy(analysis) THEN renderAnalysisComponent(sid, info, analysis)
    ELSE "AnalysisMenu"

AppRender_menuAlways(sid, info, analysis) ==
    IF ~Truthy(sid) THEN "DataUpload" ELSE "AnalysisMenu"

\* the child App renders inside its Container
AppRender(sid, info, analysis) ==
    IF ~Truthy(sid) THEN "DataUpload"
    ELSE IF Truthy(analysis) THEN renderAnalysisComponent(sid, info, analysis)
    ELSE "AnalysisMenu"

\* what is on the screen: nothing once a render has thrown (there is no error
\* boundary, so React unmounts the whole tree)
Screen == IF crashed THEN "nothing" ELSE AppRender(sessionId, dataInfo, currentAnalysis)

-----------------------------------------------------------------------------
(* Requests in flight *)

Request_noSession(owner, endpoint, sid, column, timeColumn, valueColumns) ==
    [owner |-> owner, live |-> TRUE, endpoint |-> endpoint, session_id |-> null,
     column |-> column, time_column |-> timeColumn, value_columns |-> valueColumns,
     method |-> null, message |-> <<>>, then |-> "none", options |-> None]

\* a request: its endpoint and JSON fields, the component whose handler awaits
\* it, and whether that component instance is still mounted (the setState calls
\* of an unmounted instance do nothing)
\* method and message are the fields of handle-missing and of chat/message;
\* then names the handler that awaits the fetch from inside ("apply":
\* handleMissingValuesAction awaiting fetchMissingValuesData)
Request(owner, endpoint, sid, column, timeColumn, valueColumns) ==
    [owner |-> owner, live |-> TRUE, endpoint |-> endpoint, session_id |-> sid,
     column |-> column, time_column |-> timeColumn, value_columns |-> valueColumns,
     method |-> null, message |-> <<>>, then |-> "none", options |-> None]

\* s without its i-th element
RemoveAt(s, i) == SubSeq(s, 1, i - 1) \o SubSeq(s, i + 1, Len(s))

\* the endpoints whose continuation does more than setState of its own component:
\* onDataLoaded of App, and the re-fetch after handle-missing
Consequential == {"upload/file", "upload/sample", "analysis/handle-missing"}

\* the requests of the instances of the components in owners lose their instance.
\* A request whose continuation only calls setState of the unmounted instance is
\* dropped from net: its resolution changes nothing.
Orphan(s, owners) ==
    LET Stays(r) == r.owner \notin owners \/ r.endpoint \in Consequential
        kept == SelectSeq(s, Stays)
    IN [i \in 1..Len(kept) |->
           IF kept[i].owner \in owners THEN [kept[i] EXCEPT !.live = FALSE] ELSE kept[i]]

AnalysisComponents ==
    {"BasicStats", "DistributionAnalysis", "MissingValuesAnalysis", "TimeSeriesAnalysis",
     "CorrelationAnalysis", "FullReport", "ChatBot"}

AllComponents == AnalysisComponents \cup {"DataUpload"}

\* what the backend answers to an analysis request, named by the request it answers
Payload(r) ==
    [endpoint |-> r.endpoint, session_id |-> r.session_id, column |-> r.column,
     time_column |-> r.time_column, value_columns |-> r.value_columns]

\* the endpoints the views fetch what they display from
FetchEndpoints ==
    {"analysis/basic-stats", "analysis/distribution", "analysis/missing-values",
     "analysis/time-series", "analysis/correlation", "analysis/comprehensive-report"}

\* the requests in s that the mounted instance of a component awaits
LiveRequests(s) == { i \in 1..Len(s) : s[i].live /\ s[i].owner \in AnalysisComponents }

-----------------------------------------------------------------------------
(* The DataUpload component *)

\* the useState initial values of DataUpload; also the value of upload while
\* DataUpload is not mounted (a mount starts from these values)
UploadInit ==
    [loading |-> FALSE, error |-> NoText, dataSource |-> "sample", selectedFile |-> null,
     showOptions |-> FALSE, previewData |-> None,
     hasHeader |-> TRUE, skipRows |-> 0, headerRow |-> 0]

\* the options dialog maps over previewData.columns when previewData is truthy:
\* a body without columns makes the render throw a TypeError
DialogRenderThrows(up) ==
    up.showOptions /\ up.previewData # None /\ up.previewData[1].columns = None

-----------------------------------------------------------------------------
(* The analysis components *)

\* a[0]
First(a) == IF Len(a) > 0 THEN a[1] ELSE undefined
\* x || d
OrElse(x, d) == IF Truthy(x) THEN x ELSE d

\* the value of view while no analysis component is mounted
NoView ==
    [component |-> "none", loading |-> FALSE, error |-> NoText, data |-> None,
     selectedColumn |-> null, timeColumn |-> null, selectedColumns |-> <<>>,
     handlingMethod |-> "", processing |-> FALSE, messages |-> <<>>, input |-> <<>>]

\* the useState initial values of a component mounted with the props App gives it
ViewInit(component, info) ==
    [NoView EXCEPT
        !.component = component,
        !.loading = component \in {"BasicStats", "MissingValuesAnalysis",
                                   "CorrelationAnalysis", "FullReport"},
        !.selectedColumn =
            IF component = "DistributionAnalysis"
            THEN OrElse(First(info.numeric_columns), "") ELSE null,
        !.timeColumn =
            IF component = "TimeSeriesAnalysis"
            THEN OrElse(First(info.datetime_columns), "") ELSE null,
        !.selectedColumns =
            IF component = "TimeSeriesAnalysis"
            THEN <<First(info.numeric_columns)>> ELSE <<>>]

timeSeriesReady_always(v) == TRUE

\* the condition of the effect of TimeSeriesAnalysis on [timeColumn, selectedColumns]
timeSeriesReady(v) == Truthy(v.timeColumn) /\ Len(v.selectedColumns) > 0

\* TimeSeriesAnalysis renders the warning instead of its selects and plots
timeSeriesWarning(datetimeColumns) == Len(datetimeColumns) = 0

\* the requests the useEffect of a freshly mounted component issues
MountRequests(v, sid) ==
    CASE v.component = "BasicStats" ->
            <<Request(v.component, "analysis/basic-stats", sid, null, null, <<>>)>>
      [] v.component = "MissingValuesAnalysis" ->
            <<Request(v.component, "analysis/missing-values", sid, null, null, <<>>)>>
      [] v.component = "CorrelationAnalysis" ->
            <<Request(v.component, "analysis/correlation", sid, null, null, <<>>)>>
      [] v.component = "FullReport" ->
            <<Request(v.component, "analysis/comprehensive-report", sid, null, null, <<>>)>>
      [] v.component = "DistributionAnalysis" ->
            IF Truthy(v.selectedColumn)
            THEN <<Request(v.component, "analysis/distribution", sid, v.selectedColumn, null, <<>>)>>
            ELSE <<>>
      [] v.component = "TimeSeriesAnalysis" ->
            IF timeSeriesReady(v)
            THEN <<Request(v.component, "analysis/time-series", sid, null, v.timeColumn,
                           v.selectedColumns)>>
            ELSE <<>>
      [] OTHER -> <<>>

\* the state of a component after its mount effect has run: fetchDistributionData,
\* fetchTimeSeriesData and generateReport set loading and clear error before the await
Mounted(component, info, sid) ==
    LET v == ViewInit(component, info) IN
    IF component \in {"DistributionAnalysis", "TimeSeriesAnalysis", "FullReport"}
       /\ MountRequests(v, sid) # <<>>
    THEN [v EXCEPT !.loading = TRUE, !.error = NoText]
    ELSE v

BackRendered_never(v) == FALSE

\* whether the render of the mounted analysis component holds its Back to Menu
\* button: BasicStats, MissingValuesAnalysis, CorrelationAnalysis and FullReport
\* return a bare spinner while loading
BackRendered(v) ==
    IF v.component \in {"BasicStats", "MissingValuesAnalysis", "CorrelationAnalysis", "FullReport"}
    THEN ~v.loading
    ELSE TRUE

\* the text a component puts before err.message when its request is rejected
CatchPrefix(component) ==
    CASE component = "BasicStats"            -> "Error fetching basic statistics: "
      [] component = "DistributionAnalysis"  -> "Error fetching distribution data: "
      [] component = "MissingValuesAnalysis" -> "Error fetching missing values data: "
      [] component = "TimeSeriesAnalysis"    -> "Error fetching time series data: "
      [] component = "CorrelationAnalysis"   -> "Error fetching correlation data: "
      [] component = "FullReport"            -> "Error generating report: "
      [] OTHER                               -> "Error sending message: "

-----------------------------------------------------------------------------
(* The state after construction *)

\* the record of the task that ran last
\* a text, as the record of a task holds it
Told(t) == Some([text |-> t])

Did(op, arg, data) == [op |-> op, pre |-> Ctrl, arg |-> arg, data |-> data]

Init ==
    /\ sessionId = null
    /\ dataInfo = None
    /\ currentAnalysis = null
    /\ upload = UploadInit
    /\ view = NoView
    /\ net = <<>>
    /\ crashed = FALSE
    /\ last = [op |-> "init", pre |-> CtrlInit, arg |-> null, data |-> None]

\* assigns the controller's three pieces of state
SetCtrl(c) ==
    /\ sessionId' = c.sessionId
    /\ dataInfo' = c.dataInfo
    /\ currentAnalysis' = c.currentAnalysis

ctrlVars == <<sessionId, dataInfo, currentAnalysis>>

-----------------------------------------------------------------------------
(* DataUpload: the user's actions *)

\* the page behind the open options dialog takes no clicks (a modal Dialog)
UploadPageUsable == ~crashed /\ Screen = "DataUpload" /\ ~upload.showOptions

uploadDisabled_never(up) == FALSE

\* disabled={loading} of the upload button (and its file input), of the Load
\* Sample Data button and of the Process File button
uploadDisabled(up) == up.loading

\* RadioGroup onChange: setDataSource(e.target.value)
SetDataSource(v) ==
    /\ UploadPageUsable
    /\ v # upload.dataSource
    /\ upload' = [upload EXCEPT !.dataSource = v]
    /\ last' = Did("setDataSource", v, None)
    /\ UNCHANGED <<ctrlVars, view, net, crashed>>

\* handleFileSelect: the hidden file input of the upload button, which is
\* rendered when dataSource is 'upload' and disabled while loading
handleFileSelect(file) ==
    /\ UploadPageUsable
    /\ upload.dataSource = "upload"
    /\ ~uploadDisabled(upload)
    /\ Len(net) < MaxOutstanding
    /\ last' = Did("handleFileSelect", file, None)
    /\ IF ~Truthy(file)
       THEN UNCHANGED <<upload, net>>
       ELSE IF upload.dataSource = "upload"
            THEN /\ upload' = [upload EXCEPT !.selectedFile = file, !.error = NoText,
                                             !.loading = TRUE]
                 /\ net' = Append(net, Request("DataUpload", "upload/preview", null, null,
                                               null, <<>>))
            ELSE /\ upload' = [upload EXCEPT !.selectedFile = file, !.error = NoText]
                 /\ net' = net
    /\ UNCHANGED <<ctrlVars, view, crashed>>

\* the fields of the options dialog are rendered inside {previewData && (...)}
OptionsUsable ==
    /\ ~crashed
    /\ Screen = "DataUpload"
    /\ upload.showOptions
    /\ upload.previewData # None

\* the Header Options RadioGroup, whose values arrive as the strings 'true' and
\* 'false': setHasHeader(e.target.value === 'true')
setHasHeader(v) ==
    /\ OptionsUsable
    /\ upload' = [upload EXCEPT !.hasHeader = (v = "true")]
    /\ last' = Did("setHasHeader", v, None)
    /\ UNCHANGED <<ctrlVars, view, net, crashed>>

\* the Rows to Skip field
setSkipRows(text) ==
    /\ OptionsUsable
    /\ upload' = [upload EXCEPT !.skipRows = optionValue(text)]
    /\ last' = Did("setSkipRows", null, Told(text))
    /\ UNCHANGED <<ctrlVars, view, net, crashed>>

\* the Header Row field, disabled={!hasHeader}
setHeaderRow(text) ==
    /\ OptionsUsable
    /\ upload.hasHeader
    /\ upload' = [upload EXCEPT !.headerRow = optionValue(text)]
    /\ last' = Did("setHeaderRow", null, Told(text))
    /\ UNCHANGED <<ctrlVars, view, net, crashed>>

\* the options handleFileUpload hands to uploadFile
uploadOptions(up) ==
    [has_header |-> Some(up.hasHeader), skip_rows |-> up.skipRows, header_row |-> up.headerRow]

\* the form fields uploadFile appends: has_header defaults to true when the
\* option is undefined (None), skip_rows and header_row to 0 when falsy
uploadFile(options) ==
    [has_header |-> IF options.has_header # None THEN options.has_header[1] ELSE TRUE,
     skip_rows  |-> IF options.skip_rows = 0 THEN 0 ELSE options.skip_rows,
     header_row |-> IF options.header_row = 0 THEN 0 ELSE options.header_row]

\* handleFileUpload: the Process File button of the options dialog, disabled
\* while loading
handleFileUpload ==
    /\ ~crashed
    /\ Screen = "DataUpload"
    /\ upload.showOptions
    /\ ~uploadDisabled(upload)
    /\ Len(net) < MaxOutstanding
    /\ last' = Did("handleFileUpload", upload.selectedFile, None)
    /\ IF ~Truthy(upload.selectedFile)
       THEN UNCHANGED <<upload, net>>
       ELSE /\ upload' = [upload EXCEPT !.loading = TRUE, !.error = NoText]
            /\ net' = Append(net,
                   [Request("DataUpload", "upload/file", null, null, null, <<>>)
                       EXCEPT !.options = Some(uploadFile(uploadOptions(upload)))])
    /\ UNCHANGED <<ctrlVars, view, crashed>>

\* handleSampleData: the Load Sample Data button, rendered when dataSource is
\* not 'upload' and disabled while loading
handleSampleData ==
    /\ UploadPageUsable
    /\ upload.dataSource # "upload"
    /\ ~uploadDisabled(upload)
    /\ Len(net) < MaxOutstanding
    /\ upload' = [upload EXCEPT !.loading = TRUE, !.error = NoText]
    /\ net' = Append(net, Request("DataUpload", "upload/sample", null, null, null, <<>>))
    /\ last' = Did("handleSampleData", null, None)
    /\ UNCHANGED <<ctrlVars, view, crashed>>

\* handleCloseOptions: Cancel, Escape or a click on the backdrop of the dialog
handleCloseOptions ==
    /\ ~crashed
    /\ Screen = "DataUpload"
    /\ upload.showOptions
    /\ upload' = [upload EXCEPT !.showOptions = FALSE, !.selectedFile = null,
                                !.previewData = None]
    /\ last' = Did("handleCloseOptions", null, None)
    /\ UNCHANGED <<ctrlVars, view, net, crashed>>

-----------------------------------------------------------------------------
(* DataUpload: the continuations of its handlers, run when a request resolves *)

\* the setState calls of a handler act when its component instance is mounted
Acts(r) == r.live /\ ~crashed

\* upload after the render that follows the controller becoming c: DataUpload is
\* unmounted as soon as App renders something else
UploadAfter(c, up) ==
    IF AppRender(c.sessionId, c.dataInfo, c.currentAnalysis) = "DataUpload" THEN up ELSE UploadInit

\* the requests in flight after the render that follows the controller becoming c
NetAfter(c, s) ==
    IF AppRender(c.sessionId, c.dataInfo, c.currentAnalysis) = "DataUpload"
    THEN s ELSE Orphan(s, {"DataUpload"})

\* handleFileSelect after `await previewFile(file)`: the body is stored and the
\* dialog opened whatever the body holds; catch reports a rejection
PreviewResponse(i) ==
    /\ net[i].endpoint = "upload/preview"
    /\ \E outcome \in Outcomes, e \in BackendErrors, m \in TransportMessages :
          LET up == CASE outcome = "ok" ->
                            [upload EXCEPT !.previewData = Some(PreviewBody),
                                           !.showOptions = TRUE, !.loading = FALSE]
                      [] outcome = "error" ->
                            [upload EXCEPT !.previewData = Some(PreviewError(e)),
                                           !.showOptions = TRUE, !.loading = FALSE]
                      [] OTHER ->
                            [upload EXCEPT !.error = <<"Error previewing file: ", m>>,
                                           !.loading = FALSE]
          IN /\ last' = Did("previewResponse", outcome, None)
             /\ IF Acts(net[i])
                THEN /\ upload' = up
                     /\ crashed' = DialogRenderThrows(up)
                     /\ net' = IF DialogRenderThrows(up)
                               THEN Orphan(RemoveAt(net, i), AllComponents)
                               ELSE RemoveAt(net, i)
                ELSE /\ net' = RemoveAt(net, i)
                     /\ UNCHANGED <<upload, crashed>>
    /\ UNCHANGED <<ctrlVars, view>>

hasError_never(result) == FALSE

\* if (result.error)
hasError(result) == Truthy(result.error)

\* handleFileUpload after `await uploadFile(...)` and handleSampleData after
\* `await loadSampleData()`: result.error ? setError : onDataLoaded(result)
SessionResponse(i) ==
    /\ net[i].endpoint \in {"upload/file", "upload/sample"}
    /\ \E outcome \in Outcomes, d \in SessionDescriptors, e \in BackendErrors,
          m \in TransportMessages :
          LET result == IF outcome = "ok" THEN d ELSE SessionError(e)
              prefix == IF net[i].endpoint = "upload/file"
                        THEN "Error uploading file: " ELSE "Error loading sample data: "
              rest   == RemoveAt(net, i)
          IN IF crashed
             THEN /\ last' = Did("sessionResponse", outcome, None)
                  /\ net' = rest
                  /\ UNCHANGED <<ctrlVars, upload, view>>
             ELSE IF outcome = "fail"
             THEN /\ last' = Did("sessionResponseRejected", outcome, None)
                  /\ upload' = IF net[i].live
                               THEN [upload EXCEPT !.error = <<prefix, m>>, !.loading = FALSE]
                               ELSE upload
                  /\ net' = rest
                  /\ UNCHANGED <<ctrlVars, view>>
             ELSE IF hasError(result)
             THEN /\ last' = Did("sessionResponseError", outcome, Told(<<result.error>>))
                  /\ upload' = IF net[i].live
                               THEN [upload EXCEPT !.error = <<result.error>>, !.loading = FALSE]
                               ELSE upload
                  /\ net' = rest
                  /\ UNCHANGED <<ctrlVars, view>>
             ELSE LET c == handleDataLoaded(Ctrl, result) IN
                  /\ last' = Did("loadData", outcome, Some(result))
                  /\ SetCtrl(c)
                  /\ upload' = UploadAfter(c, IF ~net[i].live THEN upload
                                              ELSE IF net[i].endpoint = "upload/file"
                                              THEN [upload EXCEPT !.showOptions = FALSE,
                                                                  !.loading = FALSE]
                                              ELSE [upload EXCEPT !.loading = FALSE])
                  /\ net' = NetAfter(c, Orphan(rest, AnalysisComponents))
                  /\ view' = NoView
    /\ UNCHANGED crashed

-----------------------------------------------------------------------------
(* App: the transitions of the controller *)

\* the analysis component mounted once the controller is c, and its requests
ViewAfter(c, v) ==
    LET comp == AppRender(c.sessionId, c.dataInfo, c.currentAnalysis) IN
    IF comp \notin AnalysisComponents THEN NoView
    ELSE IF comp = v.component THEN v
    ELSE Mounted(comp, c.dataInfo[1], c.sessionId)

IssuedAfter_none(c, v) == <<>>

\* the requests the mount effect of that component issues
IssuedAfter(c, v) ==
    LET comp == AppRender(c.sessionId, c.dataInfo, c.currentAnalysis) IN
    IF comp \notin AnalysisComponents \/ comp = v.component THEN <<>>
    ELSE MountRequests(ViewInit(comp, c.dataInfo[1]), c.sessionId)

\* the requests of the analysis component lose their instance when it is unmounted
KeptAfter(c, v, s) ==
    IF AppRender(c.sessionId, c.dataInfo, c.currentAnalysis) = v.component
    THEN s ELSE Orphan(s, AnalysisComponents)

\* onAnalysisSelect={handleAnalysisSelect}: a Start Analysis button of the menu
selectAnalysis(tag) ==
    LET c == handleAnalysisSelect(Ctrl, tag) IN
    /\ ~crashed
    /\ Screen = "AnalysisMenu"
    /\ Len(net) + Len(IssuedAfter(c, view)) <= MaxOutstanding
    /\ SetCtrl(c)
    /\ view' = ViewAfter(c, view)
    /\ net' = KeptAfter(c, view, net) \o IssuedAfter(c, view)
    /\ last' = Did("selectAnalysis", tag, None)
    /\ UNCHANGED <<upload, crashed>>

\* onBack={handleBackToMenu}: the Back to Menu button of the mounted analysis view
backToMenu ==
    LET c == handleBackToMenu(Ctrl) IN
    /\ ~crashed
    /\ Screen \in AnalysisComponents
    /\ BackRendered(view)
    /\ SetCtrl(c)
    /\ view' = ViewAfter(c, view)
    /\ net' = KeptAfter(c, view, net)
    /\ last' = Did("backToMenu", null, None)
    /\ UNCHANGED <<upload, crashed>>

\* onDataReload: the Load New Data button of the menu
reload ==
    LET c == onDataReload(Ctrl) IN
    /\ ~crashed
    /\ Screen = "AnalysisMenu"
    /\ SetCtrl(c)
    /\ upload' = UploadInit
    /\ view' = ViewAfter(c, view)
    /\ net' = KeptAfter(c, view, net)
    /\ last' = Did("reload", null, None)
    /\ UNCHANGED crashed

-----------------------------------------------------------------------------
(* The analysis components: the continuation of a fetch *)

fetchSettled_clearsData(v, r, outcome, e, m) ==
    CASE outcome = "ok"    -> [v EXCEPT !.data = Some(Payload(r)), !.loading = FALSE]
      [] outcome = "error" -> [v EXCEPT !.error = <<e>>, !.data = None, !.loading = FALSE]
      [] OTHER             -> [v EXCEPT !.error = <<CatchPrefix(r.owner), m>>,
                                        !.loading = FALSE]

fetchSettled_clearsError(v, r, outcome, e, m) ==
    CASE outcome = "ok"    -> [v EXCEPT !.data = Some(Payload(r)), !.error = NoText,
                                        !.loading = FALSE]
      [] outcome = "error" -> [v EXCEPT !.error = <<e>>, !.loading = FALSE]
      [] OTHER             -> [v EXCEPT !.error = <<CatchPrefix(r.owner), m>>,
                                        !.loading = FALSE]

fetchSettled_noFinally(v, r, outcome, e, m) ==
    CASE outcome = "ok"    -> [v EXCEPT !.data = Some(Payload(r)), !.loading = FALSE]
      [] outcome = "error" -> [v EXCEPT !.error = <<e>>, !.loading = FALSE]
      [] OTHER             -> [v EXCEPT !.error = <<CatchPrefix(r.owner), m>>]

\* a fetch function after its await: result.error ? setError(result.error) :
\* setData(result); catch: setError(prefix + err.message); finally:
\* setLoading(false).  No branch touches the field of the other branch.
fetchSettled(v, r, outcome, e, m) ==
    CASE outcome = "ok"    -> [v EXCEPT !.data = Some(Payload(r)), !.loading = FALSE]
      [] outcome = "error" -> [v EXCEPT !.error = <<e>>, !.loading = FALSE]
      [] OTHER             -> [v EXCEPT !.error = <<CatchPrefix(r.owner), m>>,
                                        !.loading = FALSE]

applyFinished_keepsMethod(v) == [v EXCEPT !.processing = FALSE]

\* handleMissingValuesAction after `await fetchMissingValuesData()`, which
\* catches its own errors: setHandlingMethod(''); finally setProcessing(false)
applyFinished(v) == [v EXCEPT !.handlingMethod = "", !.processing = FALSE]

\* what the task that settles request r records: the payload stored or the text
\* put in the error state
Settled(r, outcome, e, prefix, m) ==
    CASE outcome = "ok"    -> Some(Payload(r))
      [] outcome = "error" -> Told(<<e>>)
      [] OTHER             -> Told(<<prefix, m>>)

\* fetchStats, fetchDistributionData, fetchMissingValuesData, fetchTimeSeriesData,
\* fetchCorrelationData and generateReport after their await
AnalysisResponse(i) ==
    /\ net[i].endpoint \in FetchEndpoints
    /\ \E outcome \in Outcomes, e \in BackendErrors, m \in TransportMessages :
          /\ last' = Did(IF Acts(net[i]) THEN "analysisResponse" ELSE "orphanResponse",
                         outcome, Settled(net[i], outcome, e, CatchPrefix(net[i].owner), m))
          /\ net' = RemoveAt(net, i)
          /\ view' = IF ~Acts(net[i]) THEN view
                     ELSE IF net[i].then = "apply"
                     THEN applyFinished(fetchSettled(view, net[i], outcome, e, m))
                     ELSE fetchSettled(view, net[i], outcome, e, m)
    /\ UNCHANGED <<ctrlVars, upload, crashed>>

-----------------------------------------------------------------------------
(* DistributionAnalysis and TimeSeriesAnalysis: the selections *)

Elems(a) == { a[i] : i \in 1..Len(a) }

\* the value a multiple Select hands to onChange when the option col is clicked
Toggle(a, col) ==
    IF col \in Elems(a)
    THEN LET Keep(x) == x # col IN SelectSeq(a, Keep)
    ELSE Append(a, col)

\* fetchDistributionData / fetchTimeSeriesData up to the await
fetchStarted(v) == [v EXCEPT !.loading = TRUE, !.error = NoText]

\* the Select of DistributionAnalysis: setSelectedColumn, then the effect on
\* [selectedColumn] fetches when the column is truthy
selectColumn(col) ==
    LET v == [view EXCEPT !.selectedColumn = col] IN
    /\ ~crashed
    /\ Screen = "DistributionAnalysis"
    /\ col \in Elems(dataInfo[1].numeric_columns)
    /\ col # view.selectedColumn
    /\ Len(net) < MaxOutstanding
    /\ IF Truthy(col)
       THEN /\ view' = fetchStarted(v)
            /\ net' = Append(net, Request("DistributionAnalysis", "analysis/distribution",
                                          sessionId, col, null, <<>>))
       ELSE /\ view' = v
            /\ net' = net
    /\ last' = Did("selectColumn", col, None)
    /\ UNCHANGED <<ctrlVars, upload, crashed>>

\* the effect of TimeSeriesAnalysis after a render that changed a selection to v
timeSeriesEffect(v) ==
    /\ Len(net) + (IF timeSeriesReady(v) THEN 1 ELSE 0) <= MaxOutstanding
    /\ IF timeSeriesReady(v)
       THEN /\ view' = fetchStarted(v)
            /\ net' = Append(net, Request("TimeSeriesAnalysis", "analysis/time-series",
                                          sessionId, null, v.timeColumn, v.selectedColumns))
       ELSE /\ view' = v
            /\ net' = net

\* the selects are rendered unless datetimeColumns is empty (the warning)
timeSeriesControls ==
    /\ ~crashed
    /\ Screen = "TimeSeriesAnalysis"
    /\ ~timeSeriesWarning(dataInfo[1].datetime_columns)

\* the Time Column Select: setTimeColumn
setTimeColumn(col) ==
    /\ timeSeriesControls
    /\ col \in Elems(dataInfo[1].datetime_columns)
    /\ col # view.timeColumn
    /\ timeSeriesEffect([view EXCEPT !.timeColumn = col])
    /\ last' = Did("setTimeColumn", col, None)
    /\ UNCHANGED <<ctrlVars, upload, crashed>>

\* the Value Columns Select (multiple): setSelectedColumns
setSelectedColumns(col) ==
    /\ timeSeriesControls
    /\ col \in Elems(dataInfo[1].numeric_columns)
    /\ timeSeriesEffect([view EXCEPT !.selectedColumns = Toggle(view.selectedColumns, col)])
    /\ last' = Did("setSelectedColumns", col, None)
    /\ UNCHANGED <<ctrlVars, upload, crashed>>

-----------------------------------------------------------------------------
(* MissingValuesAnalysis: handling the missing values *)

\* the Handling Method card is inside {data && (...)} of the render after the
\* loading spinner
handlingControls ==
    /\ ~crashed
    /\ Screen = "MissingValuesAnalysis"
    /\ ~view.loading
    /\ view.data # None

\* the Handling Method Select: setHandlingMethod
setHandlingMethod(method) ==
    /\ handlingControls
    /\ method # view.handlingMethod
    /\ view' = [view EXCEPT !.handlingMethod = method]
    /\ last' = Did("setHandlingMethod", method, None)
    /\ UNCHANGED <<ctrlVars, upload, net, crashed>>

applyEnabled_ignoresProcessing(v) == Truthy(v.handlingMethod)

\* disabled={!handlingMethod || processing} of the Apply Changes button
applyEnabled(v) == Truthy(v.handlingMethod) /\ ~v.processing

\* handleMissingValuesAction up to `await handleMissingValues(...)`
handleMissingValuesAction ==
    /\ handlingControls
    /\ applyEnabled(view)
    /\ Len(net) < MaxOutstanding
    /\ last' = Did("handleMissingValuesAction", view.handlingMethod, None)
    /\ IF ~Truthy(view.handlingMethod)
       THEN UNCHANGED <<view, net>>
       ELSE /\ view' = [view EXCEPT !.processing = TRUE]
            /\ net' = Append(net,
                   [Request("MissingValuesAnalysis", "analysis/handle-missing", sessionId,
                            null, null, <<>>) EXCEPT !.method = view.handlingMethod])
    /\ UNCHANGED <<ctrlVars, upload, crashed>>

applyFailed_noFinally(v, outcome, e, m) ==
    IF outcome = "error"
    THEN [v EXCEPT !.error = <<e>>]
    ELSE [v EXCEPT !.error = <<"Error handling missing values: ", m>>]

\* handleMissingValuesAction when handle-missing answers with an error field
\* (setError(result.error)) or is rejected (catch); finally setProcessing(false)
applyFailed(v, outcome, e, m) ==
    IF outcome = "error"
    THEN [v EXCEPT !.error = <<e>>, !.processing = FALSE]
    ELSE [v EXCEPT !.error = <<"Error handling missing values: ", m>>, !.processing = FALSE]

refetches_always(outcome) == TRUE

\* whether handleMissingValuesAction goes on to fetchMissingValuesData
refetches(outcome) == outcome = "ok"

\* handleMissingValuesAction after `await handleMissingValues(...)`: on success
\* it calls fetchMissingValuesData, which issues its request with the sessionId
\* of the closure, whether or not the component is still mounted
HandleMissingResponse(i) ==
    /\ net[i].endpoint = "analysis/handle-missing"
    /\ \E outcome \in Outcomes, e \in BackendErrors, m \in TransportMessages :
          /\ last' = Did(IF Acts(net[i]) THEN "handleMissingResponse" ELSE "orphanResponse",
                         outcome,
                         Settled(net[i], outcome, e, "Error handling missing values: ", m))
          /\ IF refetches(outcome)
             THEN /\ net' = Append(RemoveAt(net, i),
                            [Request(net[i].owner, "analysis/missing-values",
                                     net[i].session_id, null, null, <<>>)
                                EXCEPT !.live = net[i].live, !.then = "apply"])
                  /\ view' = view
             ELSE /\ net' = RemoveAt(net, i)
                  /\ view' = IF Acts(net[i]) THEN applyFailed(view, outcome, e, m) ELSE view
    /\ UNCHANGED <<ctrlVars, upload, crashed>>

-----------------------------------------------------------------------------
(* ChatBot *)

\* the TextField of the chat, disabled while loading: setInput(e.target.value)
setInput(text) ==
    /\ ~crashed
    /\ Screen = "ChatBot"
    /\ ~view.loading
    /\ text # view.input
    /\ view' = [view EXCEPT !.input = text]
    /\ last' = Did("setInput", null, Told(text))
    /\ UNCHANGED <<ctrlVars, upload, net, crashed>>

sendRefused_never(v) == FALSE

\* the guard of handleSendMessage: if (!input.trim() || loading) return
sendRefused(v) == Trim(v.input) = <<>> \/ v.loading

\* handleSendMessage up to `await sendChatMessage(...)`: Enter in the TextField
\* (handleKeyPress) or the Send button, both disabled while loading
handleSendMessage ==
    /\ ~crashed
    /\ Screen = "ChatBot"
    /\ ~view.loading
    /\ Len(view.messages) < MaxMessages
    /\ Len(net) < MaxOutstanding
    /\ last' = Did("handleSendMessage", null, Told(view.input))
    /\ IF sendRefused(view)
       THEN UNCHANGED <<view, net>>
       ELSE /\ view' = [view EXCEPT
                           !.input = <<>>,
                           !.messages = Append(@, [role |-> "user", content |-> Trim(view.input)]),
                           !.loading = TRUE,
                           !.error = NoText]
            /\ net' = Append(net,
                   [Request("ChatBot", "chat/message", sessionId, null, null, <<>>)
                       EXCEPT !.message = Trim(view.input)])
    /\ UNCHANGED <<ctrlVars, upload, crashed>>

replyText_bare(outcome, e, m) ==
    CASE outcome = "ok"    -> <<"response">>
      [] outcome = "error" -> <<e>>
      [] OTHER             -> <<m>>

\* the text of the assistant message handleSendMessage appends
replyText(outcome, e, m) ==
    CASE outcome = "ok"    -> <<"response">>
      [] outcome = "error" -> <<"Error: ", e>>
      [] OTHER             -> <<"Error sending message: ", m>>

\* handleSendMessage after its await: the assistant message is appended to the
\* messages of the moment (setMessages(prev => ...)); the error state is set in
\* the two failure branches; finally setLoading(false)
chatSettled(v, outcome, e, m) ==
    [v EXCEPT
        !.messages = Append(@, [role |-> "assistant", content |-> replyText(outcome, e, m)]),
        !.error = CASE outcome = "ok"    -> @
                    [] outcome = "error" -> <<e>>
                    [] OTHER             -> <<"Error sending message: ", m>>,
        !.loading = FALSE]

ChatResponse(i) ==
    /\ net[i].endpoint = "chat/message"
    /\ \E outcome \in Outcomes, e \in BackendErrors, m \in TransportMessages :
          /\ last' = Did(IF Acts(net[i]) THEN "chatResponse" ELSE "orphanResponse",
                         outcome, Settled(net[i], outcome, e, "Error sending message: ", m))
          /\ net' = RemoveAt(net, i)
          /\ view' = IF Acts(net[i]) THEN chatSettled(view, outcome, e, m) ELSE view
    /\ UNCHANGED <<ctrlVars, upload, crashed>>

\* the Clear Chat button
clearChat ==
    /\ ~crashed
    /\ Screen = "ChatBot"
    /\ view' = [view EXCEPT !.messages = <<>>, !.error = NoText]
    /\ last' = Did("clearChat", null, None)
    /\ UNCHANGED <<ctrlVars, upload, net, crashed>>

-----------------------------------------------------------------------------
(* The specification *)

Next ==
    \/ \E v \in {"sample", "upload"} : SetDataSource(v)
    \/ \E file \in Files \cup {undefined} : handleFileSelect(file)
    \/ handleFileUpload
    \/ handleSampleData
    \/ handleCloseOptions
    \/ \E v \in {"true", "false"} : setHasHeader(v)
    \/ \E text \in OptionTexts : setSkipRows(text)
    \/ \E text \in OptionTexts : setHeaderRow(text)
    \/ \E i \in 1..Len(net) : PreviewResponse(i)
    \/ \E i \in 1..Len(net) : SessionResponse(i)
    \/ \E tag \in AnalysisTags : selectAnalysis(tag)
    \/ backToMenu
    \/ reload
    \/ \E i \in 1..Len(net) : AnalysisResponse(i)
    \/ \E col \in {"a", "b"} : selectColumn(col)
    \/ \E col \in {"t", "u"} : setTimeColumn(col)
    \/ \E col \in {"a", "b"} : setSelectedColumns(col)
    \/ \E method \in Methods : setHandlingMethod(method)
    \/ handleMissingValuesAction
    \/ \E i \in 1..Len(net) : HandleMissingResponse(i)
    \/ \E text \in Inputs : setInput(text)
    \/ handleSendMessage
    \/ \E i \in 1..Len(net) : ChatResponse(i)
    \/ clearChat

Spec == Init /\ [][Next]_vars

\* the backend answers the oldest request in flight, or the client's timeout
\* rejects it
RespondOldest ==
    /\ Len(net) > 0
    /\ \/ PreviewResponse(1)
       \/ SessionResponse(1)
       \/ AnalysisResponse(1)
       \/ HandleMissingResponse(1)
       \/ ChatResponse(1)

\* every request eventually resolves: the axios client is created with a
\* timeout, so a request that gets no answer is rejected
FairSpec == Spec /\ WF_vars(RespondOldest)

-----------------------------------------------------------------------------
(* The states of the controller *)

NoSession == ~Truthy(sessionId)
SessionMenu == Truthy(sessionId) /\ ~Truthy(currentAnalysis)
AnalysisActive == Truthy(sessionId) /\ Truthy(currentAnalysis)

-----------------------------------------------------------------------------
(* Properties *)

\* C1: after loadData (handleDataLoaded) on an error-free session descriptor,
\* sessionId is the descriptor's session_id and is not null, dataInfo is the
\* descriptor and currentAnalysis is null; and handleDataLoaded gives this result
\* from every controller state.
C1_LoadData ==
    /\ last.op = "loadData" =>
          /\ sessionId = last.data[1].session_id
          /\ sessionId # null
          /\ dataInfo = last.data
          /\ currentAnalysis = null
    /\ \A d \in SessionDescriptors :
          handleDataLoaded(Ctrl, d) =
              [sessionId |-> d.session_id, dataInfo |-> Some(d), currentAnalysis |-> null]

C1_Witness ==
    /\ last.op = "loadData"
    /\ last.pre.sessionId = null
    /\ sessionId = "s2"

\* C2: in every reachable state currentAnalysis is non-null only if sessionId is
\* non-null.
C2_AnalysisNeedsSession == currentAnalysis # null => sessionId # null

C2_Witness == currentAnalysis # null /\ sessionId # null /\ last.op = "analysisResponse"

\* C3: every task that changes sessionId (a load or a reload) leaves
\* currentAnalysis null.
C3_ClearedOnSessionChange == sessionId # last.pre.sessionId => currentAnalysis = null

C3_Witness == last.op = "reload" /\ sessionId # last.pre.sessionId

\* C4: reload yields sessionId = null, dataInfo = null and currentAnalysis = null,
\* and onDataReload gives this result from every controller state.
C4_Reload ==
    /\ last.op = "reload" => sessionId = null /\ dataInfo = None /\ currentAnalysis = null
    /\ onDataReload(Ctrl) = CtrlInit

C4_Witness == last.op = "reload" /\ last.pre.sessionId # null /\ last.pre.dataInfo # None

\* C5 as stated: the reload action is available to the user in every state of
\* the controller.
C5_ReloadEverywhere == ENABLED reload

\* C5, amended: the reload action is available to the user exactly in
\* SessionMenu, and it leads to NoSession, with the upload view on the screen,
\* in one step.
C5_ReloadFromMenu ==
    /\ (ENABLED reload) <=> SessionMenu
    /\ last.op = "reload" => NoSession /\ Screen = "DataUpload"

C5_Witness == last.op = "reload" /\ NoSession /\ last.pre.sessionId # null

\* C6: backToMenu sets currentAnalysis to null and leaves sessionId and dataInfo
\* as they were, so that the menu is rendered for the same session.
C6_BackToMenu ==
    last.op = "backToMenu" =>
        /\ currentAnalysis = null
        /\ sessionId = last.pre.sessionId
        /\ dataInfo = last.pre.dataInfo
        /\ Screen = "AnalysisMenu"

C6_Witness ==
    /\ last.op = "backToMenu"
    /\ last.pre.currentAnalysis = "correlation"
    /\ sessionId = "s1"

\* C7: backToMenu applied twice gives the state backToMenu applied once gives,
\* from every controller state; after a backToMenu, another one changes nothing.
C7_BackToMenuIdempotent ==
    /\ handleBackToMenu(handleBackToMenu(Ctrl)) = handleBackToMenu(Ctrl)
    /\ last.op = "backToMenu" => handleBackToMenu(Ctrl) = Ctrl

C7_Witness == last.op = "backToMenu" /\ last.pre.currentAnalysis # null /\ Ctrl # last.pre

\* C8: selectAnalysis(tag) happens only with a non-null sessionId; it sets
\* currentAnalysis to tag and leaves sessionId and dataInfo as they were.
C8_SelectAnalysis ==
    last.op = "selectAnalysis" =>
        /\ last.pre.sessionId # null
        /\ currentAnalysis = last.arg
        /\ sessionId = last.pre.sessionId
        /\ dataInfo = last.pre.dataInfo

C8_Witness == last.op = "selectAnalysis" /\ last.arg = "time_series" /\ sessionId # null

\* C9: exactly one view is on the screen in every state, decided by sessionId
\* and currentAnalysis alone: the upload view iff there is no session, the menu
\* iff there is a session and no analysis selection, an analysis view iff there
\* is a session and an analysis selection.
C9_ViewGating ==
    /\ (Screen = "DataUpload") <=> (sessionId = null)
    /\ (Screen = "AnalysisMenu") <=> (sessionId # null /\ currentAnalysis = null)
    /\ (Screen \in AnalysisComponents) <=> (sessionId # null /\ currentAnalysis # null)

\* C10: currentAnalysis is null or one of the seven tags of the menu, and a
\* selected tag has the analysis view bound to it on the screen.
C10_TagViews ==
    /\ currentAnalysis \in
          {null, "basic_stats", "distribution", "missing_values", "time_series",
           "correlation", "full_report", "chatbot"}
    /\ currentAnalysis # null =>
          Screen = CASE currentAnalysis = "basic_stats"    -> "BasicStats"
                     [] currentAnalysis = "distribution"   -> "DistributionAnalysis"
                     [] currentAnalysis = "missing_values" -> "MissingValuesAnalysis"
                     [] currentAnalysis = "time_series"    -> "TimeSeriesAnalysis"
                     [] currentAnalysis = "correlation"    -> "CorrelationAnalysis"
                     [] currentAnalysis = "full_report"    -> "FullReport"
                     [] currentAnalysis = "chatbot"        -> "ChatBot"
    /\ AnalysisTags =
          {"basic_stats", "distribution", "missing_values", "time_series",
           "correlation", "full_report", "chatbot"}

C10_Witness ==
    /\ last.op = "selectAnalysis"
    /\ currentAnalysis = "correlation"
    /\ Screen = "CorrelationAnalysis"

\* the tasks that settle an upload/file or upload/sample request
SessionOps == {"loadData", "sessionResponseError", "sessionResponseRejected"}

\* C11: when upload/file or upload/sample is answered with a body holding an
\* error field, the controller stays in NoSession with sessionId, dataInfo and
\* currentAnalysis null (onDataLoaded is not called) and the error state of the
\* upload view holds the error string.
C11_ErrorBodyKeepsNoSession ==
    (last.op \in SessionOps /\ last.arg = "error") =>
        /\ Ctrl = CtrlInit
        /\ last.pre = CtrlInit
        /\ Screen = "DataUpload"
        /\ \E e \in BackendErrors : upload.error = <<e>> /\ last.data = Told(<<e>>)

C11_Witness ==
    /\ last.op = "sessionResponseError"
    /\ upload.error = <<"bad file">>
    /\ upload.showOptions
    /\ ~upload.loading

\* C12: with a session whose datetime_columns is empty, the time-series view
\* shows the warning (and none of its selects) and has no request in flight, and
\* nothing fetched, for as long as it is mounted.
C12_NoDatetimeNoRequest ==
    (Screen = "TimeSeriesAnalysis" /\ dataInfo[1].datetime_columns = <<>>) =>
        /\ timeSeriesWarning(dataInfo[1].datetime_columns)
        /\ ~timeSeriesControls
        /\ \A i \in 1..Len(net) : net[i].endpoint # "analysis/time-series"
        /\ ~view.loading
        /\ view.data = None
        /\ view.error = NoText

C12_Witness ==
    /\ Screen = "TimeSeriesAnalysis"
    /\ dataInfo[1].datetime_columns = <<>>
    /\ dataInfo[1].numeric_columns # <<>>
    /\ last.op = "selectAnalysis"

\* C13: no time-series request in flight has an empty time_column, an empty
\* value_columns or a value column that is not a numeric column of the session,
\* and no distribution request has an empty column.
C13_PreconditionsChecked ==
    \A i \in LiveRequests(net) :
        /\ net[i].endpoint = "analysis/time-series" =>
              /\ Truthy(net[i].time_column)
              /\ net[i].value_columns # <<>>
              /\ Elems(net[i].value_columns) \subseteq Elems(dataInfo[1].numeric_columns)
        /\ net[i].endpoint = "analysis/distribution" => Truthy(net[i].column)

\* the tasks that settle a request of a mounted component
UploadResponseOps == SessionOps \cup {"previewResponse"}
ViewResponseOps == {"analysisResponse", "handleMissingResponse", "chatResponse"}

\* C14: a response body {error: s} of any endpoint, upload/preview included, ends
\* in a visible error message: nothing throws, the error state of the view that
\* asked is set, and the preview dialog is not opened on an error body.
C14_ErrorBodySurfaced ==
    /\ (last.op \in UploadResponseOps /\ last.arg = "error") =>
          /\ ~crashed
          /\ upload.error # NoText
          /\ last.op = "previewResponse" => ~upload.showOptions
    /\ (last.op \in ViewResponseOps /\ last.arg = "error") =>
          /\ ~crashed
          /\ view.error # NoText

\* C15: in every analysis view the task that receives an error body {error: s}
\* sets the error state of the view to exactly s and leaves the data the view
\* held (and the chat messages it already showed) as they were.
C15_ErrorKeepsData ==
    [][(last'.op \in ViewResponseOps /\ last'.arg = "error") =>
          /\ \E e \in BackendErrors : view'.error = <<e>> /\ last'.data = Told(<<e>>)
          /\ view'.data = view.data
          /\ Len(view'.messages) >= Len(view.messages)
          /\ SubSeq(view'.messages, 1, Len(view.messages)) = view.messages]_vars

C15_Witness ==
    /\ last.op = "analysisResponse"
    /\ last.arg = "error"
    /\ view.data # None
    /\ view.error = <<"bad file">>

\* C16: a rejected request is caught by the function that issued it: the error
\* state of that view holds the message, its loading and processing flags are
\* false again, nothing is thrown and the controller state is as before.
C16_TransportFailureCaught ==
    /\ (last.op \in UploadResponseOps /\ last.arg = "fail") =>
          /\ ~crashed
          /\ Ctrl = last.pre
          /\ upload.error # NoText
          /\ Len(upload.error) = 2
          /\ upload.error[2] \in TransportMessages
          /\ ~upload.loading
    /\ (last.op \in ViewResponseOps /\ last.arg = "fail") =>
          /\ ~crashed
          /\ Ctrl = last.pre
          /\ view.error # NoText
          /\ Told(view.error) = last.data
          /\ ~view.loading
          /\ ~view.processing

C16_Witness ==
    /\ last.op = "analysisResponse"
    /\ last.arg = "fail"
    /\ view.error = <<CatchPrefix(view.component), "Network Error">>
    /\ Screen = view.component

\* the user actions whose handlers (or the effect that follows them) call the API
IssuingOps ==
    {"handleFileSelect", "handleFileUpload", "handleSampleData", "selectAnalysis",
     "selectColumn", "setTimeColumn", "setSelectedColumns",
     "handleMissingValuesAction", "handleSendMessage"}

AllResponseOps == UploadResponseOps \cup ViewResponseOps \cup {"orphanResponse", "sessionResponse"}

\* C17: nothing is retried: the task that receives a failed response (error body
\* or rejection) only removes that request, and a request is added only by the
\* task of a user action or by the task that receives a successful
\* handle-missing response.
C17_NoRetry ==
    [][/\ (last'.op \in AllResponseOps /\ last'.arg \in {"error", "fail"}) =>
              /\ Len(net') < Len(net)
              /\ \A i \in 1..Len(net') : \E j \in 1..Len(net) : net'[i] = net[j]
       /\ (\E i \in 1..Len(net') : \A j \in 1..Len(net) :
                [net'[i] EXCEPT !.live = TRUE] # [net[j] EXCEPT !.live = TRUE]) =>
              \/ last'.op \in IssuingOps
              \/ /\ last'.op \in {"handleMissingResponse", "orphanResponse"}
                 /\ last'.arg = "ok"
                 /\ net'[Len(net')].endpoint = "analysis/missing-values"]_vars

C17_Witness ==
    /\ last.op = "handleMissingResponse"
    /\ last.arg \in {"error", "fail"}
    /\ net = <<>>
    /\ view.error # NoText
    /\ view.handlingMethod # ""

\* every handler a user can trigger: a click, a selection, a key press
UserAction ==
    \/ \E v \in {"sample", "upload"} : SetDataSource(v)
    \/ \E file \in Files \cup {undefined} : handleFileSelect(file)
    \/ handleFileUpload
    \/ handleSampleData
    \/ handleCloseOptions
    \/ \E v \in {"true", "false"} : setHasHeader(v)
    \/ \E text \in OptionTexts : setSkipRows(text)
    \/ \E text \in OptionTexts : setHeaderRow(text)
    \/ \E tag \in AnalysisTags : selectAnalysis(tag)
    \/ backToMenu
    \/ reload
    \/ \E col \in {"a", "b"} : selectColumn(col)
    \/ \E col \in {"t", "u"} : setTimeColumn(col)
    \/ \E col \in {"a", "b"} : setSelectedColumns(col)
    \/ \E method \in Methods : setHandlingMethod(method)
    \/ handleMissingValuesAction
    \/ \E text \in Inputs : setInput(text)
    \/ handleSendMessage
    \/ clearChat

\* C18: no error is fatal: whenever no request is pending (so in particular
\* after every failed response) some user action is enabled.
C18_NeverStuck == net = <<>> => ENABLED UserAction

\* C19: at every moment at most one request issued by the mounted analysis view
\* is outstanding.
C19_OneOutstanding == Cardinality(LiveRequests(net)) <= 1

\* the views whose selects stay enabled while a request is outstanding
Overlapping == {"DistributionAnalysis", "TimeSeriesAnalysis"}

\* C19 (amended): outside the distribution and time-series views at most one
\* request issued by the mounted view is outstanding at every moment.
C19_OneOutstandingElsewhere ==
    view.component \notin Overlapping => Cardinality(LiveRequests(net)) <= 1

C19_Witness ==
    /\ Screen = "MissingValuesAnalysis"
    /\ view.processing
    /\ last.op = "setHandlingMethod"
    /\ Cardinality(LiveRequests(net)) = 1

ViewOps ==
    {"selectColumn", "setTimeColumn", "setSelectedColumns", "setHandlingMethod",
     "handleMissingValuesAction", "setInput", "handleSendMessage", "clearChat"}

\* C21: sessionId and dataInfo are written only by loadData and reload; no
\* handler of a control inside an analysis view and no continuation that
\* receives a response for a view changes the controller state.
C21_ControllerOwnsSession ==
    [][/\ (sessionId' # sessionId \/ dataInfo' # dataInfo) => last'.op \in {"loadData", "reload"}
       /\ last'.op \in ViewOps \cup ViewResponseOps \cup {"orphanResponse"} => Ctrl' = Ctrl]_vars

C21_Witness ==
    /\ last.op = "handleMissingResponse"
    /\ last.arg = "ok"
    /\ Truthy(sessionId)
    /\ Ctrl = last.pre

\* C22: sessionId and dataInfo are null together, a non-null dataInfo carries
\* the session_id that sessionId holds, a session comes into being only by the
\* success of an upload or sample response and ends only by reload.
C22_OneSession ==
    /\ [](/\ ~Truthy(sessionId) <=> dataInfo = None
          /\ dataInfo # None => dataInfo[1].session_id = sessionId)
    /\ [][/\ (~Truthy(sessionId) /\ Truthy(sessionId')) =>
                (last'.op = "loadData" /\ last'.arg = "ok")
          /\ (Truthy(sessionId) /\ ~Truthy(sessionId')) => last'.op = "reload"]_vars

C22_Witness ==
    /\ last.op = "reload"
    /\ Truthy(last.pre.sessionId)
    /\ sessionId = null
    /\ dataInfo = None

\* the number of requests in s that go to endpoint
CountOf(s, endpoint) == Cardinality({ i \in 1..Len(s) : s[i].endpoint = endpoint })

\* C23: Apply is refused with an empty method, and with a method it issues one
\* handle-missing request carrying it; a successful response to that request
\* issues one missing-values re-fetch, after which the method is reset to
\* empty; an error body or a rejection issues no re-fetch and keeps the method.
C23_HandleMissing ==
    /\ [](/\ ~Truthy(view.handlingMethod) => ~ENABLED handleMissingValuesAction
          /\ \A i \in 1..Len(net) :
                net[i].endpoint = "analysis/handle-missing" => net[i].method \in Methods)
    /\ [][/\ last'.op = "handleMissingValuesAction" =>
                /\ Len(net') = Len(net) + 1
                /\ SubSeq(net', 1, Len(net)) = net
                /\ net'[Len(net')].endpoint = "analysis/handle-missing"
                /\ net'[Len(net')].method = view.handlingMethod
                /\ net'[Len(net')].session_id = sessionId
          /\ (/\ last'.op \in {"handleMissingResponse", "orphanResponse"}
              /\ CountOf(net', "analysis/handle-missing") < CountOf(net, "analysis/handle-missing")) =>
                /\ CountOf(net', "analysis/missing-values")
                      = CountOf(net, "analysis/missing-values") + (IF last'.arg = "ok" THEN 1 ELSE 0)
                /\ Len(net') = Len(net) - (IF last'.arg = "ok" THEN 0 ELSE 1)
                /\ view'.handlingMethod = view.handlingMethod
          /\ (last'.op = "analysisResponse" /\ view.processing) =>
                /\ view'.handlingMethod = ""
                /\ ~view'.processing
                /\ Len(net') = Len(net) - 1]_vars

C23_Witness ==
    /\ Screen = "MissingValuesAnalysis"
    /\ last.op = "analysisResponse"
    /\ last.arg = "error"
    /\ view.data # None
    /\ view.handlingMethod = ""
    /\ ~view.processing

\* the views whose mount effect fetches unconditionally
FetchOnMount == {"BasicStats", "MissingValuesAnalysis", "CorrelationAnalysis", "FullReport"}

\* the endpoint the mount effect of a component calls
MountEndpoint(component) ==
    CASE component = "BasicStats"            -> "analysis/basic-stats"
      [] component = "DistributionAnalysis"  -> "analysis/distribution"
      [] component = "MissingValuesAnalysis" -> "analysis/missing-values"
      [] component = "TimeSeriesAnalysis"    -> "analysis/time-series"
      [] component = "CorrelationAnalysis"   -> "analysis/correlation"
      [] component = "FullReport"            -> "analysis/comprehensive-report"
      [] OTHER                               -> "none"

\* the task that just ran mounted a component, whose instance awaits exactly n
\* requests, all of them issued by its mount effect; it issued nothing else
MountIssued(n) ==
    LET mine == { i \in 1..Len(net') : net'[i].live /\ net'[i].owner = view'.component } IN
    /\ Cardinality(mine) = n
    /\ \A i \in mine :
          /\ net'[i].endpoint = MountEndpoint(view'.component)
          /\ net'[i].session_id = sessionId'
    /\ \A i \in (1..Len(net')) \ mine : \E j \in 1..Len(net) :
          [net'[i] EXCEPT !.live = TRUE] = [net[j] EXCEPT !.live = TRUE]
    /\ LiveRequests(net) = {}

\* the task that just ran issued no request
NothingIssued ==
    /\ Len(net') <= Len(net)
    /\ \A i \in 1..Len(net') : \E j \in 1..Len(net) :
          [net'[i] EXCEPT !.live = TRUE] = [net[j] EXCEPT !.live = TRUE]

ControllerOps == {"loadData", "backToMenu", "reload"}

\* C24: the task that mounts an analysis view issues that view's request with
\* the session id, exactly one for basic_stats, missing_values, correlation and
\* full_report and at least one for every other view, and loadData, backToMenu
\* and reload issue none.
C24_EveryViewFetchesOnMount ==
    [][/\ last'.op = "selectAnalysis" =>
             /\ view'.component \in AnalysisComponents
             /\ \E n \in 1..MaxOutstanding : MountIssued(n)
             /\ view'.component \in FetchOnMount => MountIssued(1)
       /\ last'.op \in ControllerOps => NothingIssued]_vars

\* C24 (amended): the task that mounts an analysis view issues exactly one
\* request with the session id for basic_stats, missing_values, correlation and
\* full_report, one for distribution when the session has a numeric column, one
\* for time_series when it has a datetime column, and none otherwise, none at
\* all for the chat; loadData, backToMenu and reload issue none.
C24_MountFetches ==
    [][/\ last'.op = "selectAnalysis" =>
             /\ view'.component \in AnalysisComponents
             /\ MountIssued(CASE view'.component \in FetchOnMount -> 1
                              [] view'.component = "DistributionAnalysis" ->
                                    IF dataInfo[1].numeric_columns # <<>> THEN 1 ELSE 0
                              [] view'.component = "TimeSeriesAnalysis" ->
                                    IF dataInfo[1].datetime_columns # <<>> THEN 1 ELSE 0
                              [] OTHER -> 0)
       /\ last'.op \in ControllerOps => NothingIssued]_vars

C24_Witness ==
    /\ last.op = "selectAnalysis"
    /\ Screen = "ChatBot"
    /\ net = <<>>
    /\ ~view.loading

\* the endpoints of the three upload functions of the API wrapper
UploadEndpoints == {"upload/preview", "upload/file", "upload/sample"}

\* the eleven endpoints the components call
Endpoints ==
    UploadEndpoints \cup FetchEndpoints \cup {"analysis/handle-missing", "chat/message"}

\* C25: every request in flight goes to one of the eleven endpoints and carries
\* the fields of that endpoint and no other: a session_id on every analysis and
\* chat request, column on distribution, method on handle-missing, time_column
\* and value_columns on time-series, message on chat.
C25_RequestShapes ==
    \A i \in 1..Len(net) :
        LET r == net[i] IN
        /\ r.endpoint \in Endpoints
        /\ Truthy(r.session_id) <=> r.endpoint \notin UploadEndpoints
        /\ Truthy(r.column) <=> r.endpoint = "analysis/distribution"
        /\ Truthy(r.method) <=> r.endpoint = "analysis/handle-missing"
        /\ r.method # null => r.method \in Methods
        /\ Truthy(r.time_column) <=> r.endpoint = "analysis/time-series"
        /\ r.value_columns # <<>> <=> r.endpoint = "analysis/time-series"
        /\ r.message # <<>> <=> r.endpoint = "chat/message"

C25_Witness ==
    /\ Len(net) = 2
    /\ net[1].endpoint = "analysis/handle-missing"
    /\ net[1].session_id = "s1"
    /\ net[2].endpoint = "chat/message"
    /\ net[2].message = <<"h">>

\* C26: in AnalysisActive the Back to Menu button can be clicked in every
\* sub-state of the mounted view, also while its request is outstanding.
C26_BackAlwaysAvailable == AnalysisActive => ENABLED backToMenu

\* C26 (amended): in AnalysisActive the Back to Menu button can be clicked
\* unless the mounted view is one of basic-stats, missing-values, correlation
\* and full-report and is loading; then its mount request is outstanding and
\* the view shows a bare spinner.
C26_BackUnlessSpinner ==
    AnalysisActive =>
        IF view.component \in FetchOnMount /\ view.loading
        THEN /\ ~ENABLED backToMenu
             /\ \E i \in LiveRequests(net) : net[i].endpoint = MountEndpoint(view.component)
        ELSE ENABLED backToMenu

C26_Witness ==
    /\ AnalysisActive
    /\ view.component = "DistributionAnalysis"
    /\ view.loading
    /\ LiveRequests(net) # {}
    /\ ENABLED backToMenu

\* the tasks that call a setter of App
TransitionOps == {"loadData", "selectAnalysis", "backToMenu", "reload"}

\* C27: the controller state changes only in loadData, selectAnalysis,
\* backToMenu and reload; AnalysisActive is entered only from SessionMenu, by
\* selectAnalysis, and NoSession is left only for SessionMenu, by a successful
\* loadData.
C27_Transitions ==
    [][/\ Ctrl' # Ctrl => last'.op \in TransitionOps
       /\ (~AnalysisActive /\ AnalysisActive') =>
             (SessionMenu /\ last'.op = "selectAnalysis")
       /\ (NoSession /\ ~NoSession') =>
             (SessionMenu' /\ last'.op = "loadData" /\ last'.arg = "ok")]_vars

C27_Witness ==
    /\ AnalysisActive
    /\ last.op = "selectAnalysis"
    /\ Truthy(last.pre.sessionId)
    /\ ~Truthy(last.pre.currentAnalysis)
    /\ Screen \in AnalysisComponents

\* C28: every analysis or chat request is issued with the session_id the
\* controller holds when the request is issued, the re-fetch that follows a
\* handle-missing response included.
C28_RequestsCarryCurrentSession ==
    [][\A i \in 1..Len(net') :
          (/\ net'[i].endpoint \notin UploadEndpoints
           /\ \A j \in 1..Len(net) :
                 [net'[i] EXCEPT !.live = TRUE] # [net[j] EXCEPT !.live = TRUE]) =>
              net'[i].session_id = sessionId']_vars

\* the requests in s that a handler of DataUpload awaits
UploadRequests(s) == { i \in 1..Len(s) : s[i].owner = "DataUpload" }

\* C29: at most one request of the upload view (preview, upload or sample) is
\* outstanding, and while the view is mounted its loading flag is true exactly
\* when one is.
C29_OneUploadRequest ==
    /\ Cardinality(UploadRequests(net)) <= 1
    /\ \A i \in UploadRequests(net) : net[i].endpoint \in UploadEndpoints /\ net[i].live
    /\ Screen = "DataUpload" => (upload.loading <=> UploadRequests(net) # {})
    /\ Screen # "DataUpload" => UploadRequests(net) = {}

C29_Witness ==
    /\ last.op = "handleCloseOptions"
    /\ upload.loading
    /\ \E i \in UploadRequests(net) : net[i].endpoint = "upload/file"
    /\ upload.dataSource = "upload"

\* C30: once the options dialog has been cancelled while the upload/file
\* request is outstanding, no later task creates a session: the controller is
\* still in NoSession after the response.
C30_CancelledUploadNoSession ==
    [][(/\ Screen = "DataUpload"
        /\ ~upload.showOptions
        /\ \E i \in UploadRequests(net) : net[i].endpoint = "upload/file") =>
           ~Truthy(sessionId')]_vars

\* a request for the selection the view now shows has been issued
SelectionFetchable(v) ==
    IF v.component = "DistributionAnalysis" THEN Truthy(v.selectedColumn) ELSE timeSeriesReady(v)

\* the payload answers a request for the selection the view now shows
AnswersSelection(v, payload) ==
    IF v.component = "DistributionAnalysis"
    THEN payload.column = v.selectedColumn
    ELSE payload.time_column = v.timeColumn /\ payload.value_columns = v.selectedColumns

\* C31: in the distribution and time-series views, once the last outstanding
\* request has resolved and all resolved successfully, the data of the view
\* answer the request for the selection the view shows.
C31_DataMatchesSelection ==
    (/\ view.component \in Overlapping
     /\ SelectionFetchable(view)
     /\ LiveRequests(net) = {}
     /\ last.op = "analysisResponse"
     /\ last.arg = "ok"
     /\ view.error = NoText) =>
        /\ view.data # None
        /\ AnswersSelection(view, view.data[1])

\* C32: in the distribution and time-series views loading is true whenever a
\* request of the view is outstanding, so data fetched earlier are not shown
\* while a newer request is in flight.
C32_LoadingWhileOutstanding ==
    (view.component \in Overlapping /\ LiveRequests(net) # {}) => view.loading

\* C33: when every request eventually resolves, a loading or processing flag
\* that is set is eventually false again, in the upload view and in every
\* analysis view.
C33_LoadingEnds ==
    /\ view.loading ~> ~view.loading
    /\ view.processing ~> ~view.processing
    /\ upload.loading ~> ~upload.loading

C33_Witness ==
    /\ last.op = "handleMissingResponse"
    /\ last.arg = "fail"
    /\ ~view.processing
    /\ ~view.loading
    /\ Screen = "MissingValuesAnalysis"

\* C34: in the missing-values view, when the re-fetch that follows a
\* successful handle-missing response succeeds too, the error state of the
\* view is null afterwards.
C34_ApplyClearsError ==
    [][(/\ view.component = "MissingValuesAnalysis"
        /\ view.processing
        /\ last'.op = "analysisResponse"
        /\ last'.arg = "ok") => view'.error = NoText]_vars

\* the chat requests the mounted ChatBot awaits
ChatRequests(s) == { i \in LiveRequests(s) : s[i].endpoint = "chat/message" }

\* C35: a send with an empty or whitespace-only input, or while loading, issues
\* no request and leaves the chat as it was; any other send issues one request
\* carrying the trimmed input; at most one chat request is outstanding, and
\* loading is true while it is.
C35_SendGuard ==
    /\ [](/\ Cardinality(ChatRequests(net)) <= 1
          /\ ChatRequests(net) # {} => view.loading
          /\ view.loading => ~ENABLED handleSendMessage)
    /\ [][last'.op = "handleSendMessage" =>
            IF Trim(view.input) = <<>> \/ view.loading
            THEN net' = net /\ view' = view
            ELSE /\ Len(net') = Len(net) + 1
                 /\ SubSeq(net', 1, Len(net)) = net
                 /\ net'[Len(net')].endpoint = "chat/message"
                 /\ net'[Len(net')].message = Trim(view.input)
                 /\ net'[Len(net')].message # <<>>
                 /\ ChatRequests(net) = {}]_vars

C35_Witness ==
    /\ last.op = "handleSendMessage"
    /\ view.input = <<" ">>
    /\ view.messages = <<>>
    /\ view.error = NoText
    /\ net = <<>>

\* C36: the message history of the chat alternates strictly, starting with a
\* user message: every assistant message directly follows a user message.
C36_MessagesAlternate ==
    \A i \in 1..Len(view.messages) :
        view.messages[i].role = IF i % 2 = 1 THEN "user" ELSE "assistant"

\* C37: the task that receives the response to a chat message appends exactly
\* one assistant message: the response text on success, 'Error: ' and the error
\* string on an error body, 'Error sending message: ' and the transport message
\* on a rejection; in the two failure cases the error state is set as well.
C37_OneReply ==
    [][last'.op = "chatResponse" =>
          /\ Len(view'.messages) = Len(view.messages) + 1
          /\ SubSeq(view'.messages, 1, Len(view.messages)) = view.messages
          /\ view'.messages[Len(view'.messages)].role = "assistant"
          /\ ~view'.loading
          /\ LET content == view'.messages[Len(view'.messages)].content IN
             CASE last'.arg = "ok" ->
                     content = <<"response">> /\ view'.error = view.error
               [] last'.arg = "error" ->
                     \E e \in BackendErrors : content = <<"Error: ", e>> /\ view'.error = <<e>>
               [] OTHER ->
                     \E m \in TransportMessages :
                        /\ content = <<"Error sending message: ", m>>
                        /\ view'.error = content]_vars

C37_Witness ==
    /\ last.op = "chatResponse"
    /\ last.arg = "error"
    /\ Len(view.messages) = 2
    /\ view.messages[1] = [role |-> "user", content |-> <<"h">>]
    /\ view.messages[2] = [role |-> "assistant", content |-> <<"Error: ", "bad file">>]
    /\ view.error = <<"bad file">>

\* the form fields of the upload/file requests in flight
FileOptions(s) == {s[i].options[1] : i \in {j \in 1..Len(s) : s[j].endpoint = "upload/file"}}

\* C38: the skip_rows and header_row sent with upload/file are non-negative
\* integers whatever text (empty, non-numeric, negative) was typed in the
\* options fields, and has_header is sent as the user chose it: false after
\* 'No headers' was chosen, true only while the choice is 'true'.
C38_OptionsSent ==
    /\ [](/\ upload.skipRows \in Nat
          /\ upload.headerRow \in Nat
          /\ \A i \in 1..Len(net) :
                net[i].endpoint = "upload/file" =>
                    /\ net[i].options # None
                    /\ net[i].options[1].skip_rows \in Nat
                    /\ net[i].options[1].header_row \in Nat
                    /\ net[i].options[1].has_header \in BOOLEAN)
    /\ [][/\ (last'.op = "setHasHeader" /\ last'.arg = "false") => ~upload'.hasHeader
          /\ (last'.op = "setHasHeader" /\ last'.arg = "true") => upload'.hasHeader
          /\ (last'.op = "handleFileUpload" /\ Len(net') > Len(net)) =>
                /\ net'[Len(net')].endpoint = "upload/file"
                /\ net'[Len(net')].options =
                      Some([has_header |-> upload.hasHeader,
                            skip_rows  |-> upload.skipRows,
                            header_row |-> upload.headerRow])]_vars

\* an upload/file request in flight that carries has_header false and the
\* values typed before 'No headers' was chosen
C38_Witness ==
    /\ last.op = "handleFileUpload"
    /\ [has_header |-> FALSE, skip_rows |-> 2, header_row |-> 2] \in FileOptions(net)
    /\ ~upload.hasHeader

====
